---- MODULE Spec2Model ----
(***************************************************************************)
(* EAX authenticated encryption (src/lib.rs): Eax::encrypt, Eax::decrypt   *)
(* and Eax::cmac_with_iv, over the primitives the crate is generic in or   *)
(* imports: a 16-byte block cipher C, Cmac<C>, Ctr128<C> and subtle's      *)
(* ct_eq.  Bytes are 8 bits wide, blocks are 16 bytes, as in the source.   *)
(* The block cipher is a type parameter of Eax; it is instantiated here    *)
(* with a small keyed permutation of 16-byte blocks.                       *)
(***************************************************************************)
EXTENDS Integers, Sequences, FiniteSets, TLC

VARIABLES key, nonce, header, data, mac, n, h, c, mac2, tag, pc, result,
          plain, entry, sent, verified, prev

vars == <<key, nonce, header, data, mac, n, h, c, mac2, tag, pc, result,
          plain, entry, sent, verified, prev>>

(* ------------------------------ sizes -------------------------------- *)

\* BlockSize = U16
BlockSize == 16

\* C::KeySize, for the AES-128 instance the source's comments describe:
\* key and nonce are as long as a block
KeySize == BlockSize

\* Longest header drawn from the byte alphabet
MaxHeaderLen == 1

\* Longest plaintext drawn from the byte alphabet
MaxDataLen == 2

(* ------------------------------ bytes -------------------------------- *)

RECURSIVE BitXor(_, _, _)
BitXor(a, b, w) ==
    IF w = 0 THEN 0
    ELSE (((a % 2) + (b % 2)) % 2) + (2 * BitXor(a \div 2, b \div 2, w - 1))

\* u8 ^ u8, tabulated over nibbles
NibbleXor == [a \in 0..15 |-> [b \in 0..15 |-> BitXor(a, b, 4)]]

Xor8(a, b) ==
    (16 * NibbleXor[a \div 16][b \div 16]) + NibbleXor[a % 16][b % 16]

\* zip(.., |a, b| a ^ b) over two arrays of the same length
XorSeq(a, b) == [i \in 1..Len(a) |-> Xor8(a[i], b[i])]

Zeros(k) == [i \in 1..k |-> 0]

Take(s, k) == SubSeq(s, 1, k)

Drop(s, k) == SubSeq(s, k + 1, Len(s))

Min(a, b) == IF a < b THEN a ELSE b

(* --------------------------- block cipher ---------------------------- *)

SBox(x) == ((x * 167) + 13) % 256

RECURSIVE Chain(_, _, _)
Chain(s, i, acc) ==
    IF i > Len(s) THEN <<>>
    ELSE LET v == (s[i] + acc) % 256 IN <<v>> \o Chain(s, i + 1, v)

Reverse(s) == [i \in 1..Len(s) |-> s[Len(s) + 1 - i]]

CipherRound(k, b) ==
    Reverse(Chain([i \in 1..Len(b) |->
                      SBox(Xor8(b[i], k[((i - 1) % Len(k)) + 1]))], 1, 0))

\* C::encrypt_block under key k: a keyed permutation of 16-byte blocks
EncryptBlock(k, b) == CipherRound(k, CipherRound(k, b))

(* ------------------------------- Cmac -------------------------------- *)

\* dbl: multiplication by x in GF(2^128), big-endian
Dbl(b) ==
    LET sh == [i \in 1..Len(b) |->
                 ((b[i] * 2) % 256) + (IF i < Len(b) THEN b[i + 1] \div 128 ELSE 0)]
    IN IF b[1] >= 128 THEN [sh EXCEPT ![Len(b)] = Xor8(@, 135)] ELSE sh

\* buffer[pos..] ^= d, for the bytes of d that fit
XorInto(buf, pos, d) ==
    [i \in 1..Len(buf) |->
        IF i > pos /\ i <= pos + Len(d) THEN Xor8(buf[i], d[i - pos]) ELSE buf[i]]

\* Cmac::new(key)
CmacNew(k) ==
    LET key1 == Dbl(EncryptBlock(k, Zeros(BlockSize)))
    IN [key |-> k, key1 |-> key1, key2 |-> Dbl(key1),
        buffer |-> Zeros(BlockSize), pos |-> 0]

\* the loop of Cmac::input over the complete blocks of d
RECURSIVE CmacBlocks(_, _, _)
CmacBlocks(k, buf, d) ==
    IF Len(d) >= BlockSize
    THEN CmacBlocks(k, XorInto(EncryptBlock(k, buf), 0, Take(d, BlockSize)),
                    Drop(d, BlockSize))
    ELSE [buffer |-> buf, rest |-> d]

\* Cmac::input(data)
CmacInput(m, d) ==
    LET rem == BlockSize - m.pos IN
    IF Len(d) < rem
    THEN [m EXCEPT !.buffer = XorInto(m.buffer, m.pos, d), !.pos = m.pos + Len(d)]
    ELSE LET full == XorInto(m.buffer, m.pos, Take(d, rem))
             b == CmacBlocks(m.key, full, Drop(d, rem))
         IN IF Len(b.rest) # 0
            THEN [m EXCEPT !.buffer = XorInto(EncryptBlock(m.key, b.buffer), 0, b.rest),
                           !.pos = Len(b.rest)]
            ELSE [m EXCEPT !.buffer = b.buffer, !.pos = BlockSize]

\* Cmac::result().code()
CmacResult(m) ==
    LET buf == IF m.pos = BlockSize
               THEN XorSeq(m.buffer, m.key1)
               ELSE [XorSeq(m.buffer, m.key2) EXCEPT ![m.pos + 1] = Xor8(@, 128)]
    IN EncryptBlock(m.key, buf)

\* The MAC primitive over one byte sequence: new, one input, result
Mac(k, msg) == CmacResult(CmacInput(CmacNew(k), msg))

(* ------------------------------ Ctr128 ------------------------------- *)

\* the 128-bit big-endian counter block plus one, wrapping
RECURSIVE IncBE(_, _)
IncBE(b, i) ==
    IF i = 0 THEN b
    ELSE IF b[i] = 255 THEN IncBE([b EXCEPT ![i] = 0], i - 1)
    ELSE [b EXCEPT ![i] = b[i] + 1]

RECURSIVE Keystream(_, _, _)
Keystream(k, ctr, len) ==
    IF len = 0 THEN <<>>
    ELSE LET m == Min(len, BlockSize)
         IN Take(EncryptBlock(k, ctr), m)
              \o Keystream(k, IncBE(ctr, BlockSize), len - m)

\* Ctr128::<C>::new(key, iv) followed by apply_keystream(d)
apply_keystream(k, iv, d) == XorSeq(d, Keystream(k, iv, Len(d)))

(* ------------------------------ subtle ------------------------------- *)

\* [u8]::ct_eq: 0 on a length mismatch, else the AND of all byte equalities
RECURSIVE CtFold(_, _, _, _)
CtFold(a, b, i, acc) ==
    IF i > Len(a) THEN acc
    ELSE CtFold(a, b, i + 1, acc * (IF a[i] = b[i] THEN 1 ELSE 0))

ct_eq(a, b) == IF Len(a) # Len(b) THEN 0 ELSE CtFold(a, b, 1, 1)

(* --------------------------- Eax, as functions ----------------------- *)

\* mutant: the 16-byte prefix is finalized as a MAC of its own, and its
\* code is fed to a second computation in front of the message
cmac_with_iv_split(k, iv, d) ==
    CmacResult(CmacInput(CmacNew(k),
        CmacResult(CmacInput(CmacInput(CmacNew(k), Zeros(15)), <<iv>>)) \o d))

\* Eax::cmac_with_iv
cmac_with_iv(k, iv, d) ==
    CmacResult(CmacInput(CmacInput(CmacInput(CmacNew(k), Zeros(15)), <<iv>>), d))

\* mutant: the header MAC is left out of the tag
Zip3NoHeader(x, y, z) == XorSeq(x, z)

\* n.zip(h, ^).zip(c, ^)
Zip3(x, y, z) == XorSeq(XorSeq(x, y), z)

(* ------------------------------ inputs ------------------------------- *)

SampleBytes == {128}

Msgs(maxlen) == UNION {[1..k -> SampleBytes] : k \in 0..maxlen}

Keys == {Zeros(KeySize), [i \in 1..KeySize |-> i]}

Nonces == {Zeros(KeySize), [i \in 1..KeySize |-> 255 - i]}

\* short headers, and one that fills a block exactly
Headers == Msgs(MaxHeaderLen) \cup {[i \in 1..BlockSize |-> 16 + i]}

\* short plaintexts, and one that spans two blocks
Plaintexts == Msgs(MaxDataLen) \cup {[i \in 1..(BlockSize + 1) |-> 2 * i]}

FlipFirst(s) == [s EXCEPT ![1] = Xor8(@, 1)]

FlipLast(s) == [s EXCEPT ![Len(s)] = Xor8(@, 128)]

\* what a caller (or an attacker on the wire) may turn a byte string into
Altered(s) == (IF s = <<>> THEN {} ELSE {FlipFirst(s)}) \cup {s \o <<0>>}

\* the mac values a caller may hand to decrypt, given the tag t of encrypt
MacChoices(t) ==
    {Take(t, l) : l \in {0, 1, BlockSize}}
      \cup {FlipLast(t), Take(FlipFirst(t), 1), t \o <<0>>}

None == <<>>

NoPrev == [set |-> FALSE, nonce |-> None, data |-> None, tag |-> None]

(* ---------------------------- Eax::encrypt --------------------------- *)

Init ==
    /\ key \in Keys
    /\ nonce \in Nonces
    /\ header \in Headers
    /\ data \in Plaintexts
    /\ plain = data
    /\ mac = None /\ n = None /\ h = None /\ c = None /\ mac2 = None
    /\ tag = None
    /\ pc = "enc_n"
    /\ result = "none"
    /\ entry = None
    /\ sent = [nonce |-> None, header |-> None, data |-> None, tag |-> None]
    /\ verified = FALSE
    /\ prev = NoPrev

\* let n = Self::cmac_with_iv(key, 0, nonce).code();
EncN ==
    /\ pc = "enc_n"
    /\ n' = cmac_with_iv(key, 0, nonce)
    /\ pc' = "enc_h"
    /\ UNCHANGED <<key, nonce, header, data, mac, h, c, mac2, tag, result,
                   plain, entry, sent, verified, prev>>

\* let h = Self::cmac_with_iv(key, 1, header).code();
EncH ==
    /\ pc = "enc_h"
    /\ h' = cmac_with_iv(key, 1, header)
    /\ pc' = "enc_ctr"
    /\ UNCHANGED <<key, nonce, header, data, mac, n, c, mac2, tag, result,
                   plain, entry, sent, verified, prev>>

\* mutant: the counter transform is seeded with h instead of n
EncCtrSeedH ==
    /\ pc = "enc_ctr"
    /\ data' = apply_keystream(key, h, data)
    /\ pc' = "enc_c"
    /\ UNCHANGED <<key, nonce, header, mac, n, h, c, mac2, tag, result,
                   plain, entry, sent, verified, prev>>

\* Ctr128::new(key, &n).apply_keystream(data)
EncCtr ==
    /\ pc = "enc_ctr"
    /\ data' = apply_keystream(key, n, data)
    /\ pc' = "enc_c"
    /\ UNCHANGED <<key, nonce, header, mac, n, h, c, mac2, tag, result,
                   plain, entry, sent, verified, prev>>

\* mutant: the ciphertext MAC is taken over the plaintext
EncCPlain ==
    /\ pc = "enc_c"
    /\ c' = cmac_with_iv(key, 2, plain)
    /\ pc' = "enc_tag"
    /\ UNCHANGED <<key, nonce, header, data, mac, n, h, mac2, tag, result,
                   plain, entry, sent, verified, prev>>

\* let c = Self::cmac_with_iv(key, 2, data).code();
EncC ==
    /\ pc = "enc_c"
    /\ c' = cmac_with_iv(key, 2, data)
    /\ pc' = "enc_tag"
    /\ UNCHANGED <<key, nonce, header, data, mac, n, h, mac2, tag, result,
                   plain, entry, sent, verified, prev>>

\* n.zip(h, ^).zip(c, ^) is returned; the locals are dropped
EncTag ==
    /\ pc = "enc_tag"
    /\ tag' = Zip3(n, h, c)
    /\ sent' = [nonce |-> nonce, header |-> header, data |-> data, tag |-> tag']
    /\ n' = None /\ h' = None /\ c' = None
    /\ pc' = "enc_done"
    /\ UNCHANGED <<key, nonce, header, data, mac, mac2, result,
                   plain, entry, verified, prev>>

\* a second encrypt call: same key, header and plaintext, another nonce
EncryptAgain ==
    /\ pc = "enc_done"
    /\ ~prev.set
    /\ \E nn \in Nonces \ {nonce} :
          /\ prev' = [set |-> TRUE, nonce |-> nonce, data |-> data, tag |-> tag]
          /\ nonce' = nn
    /\ data' = plain
    /\ tag' = None
    /\ pc' = "enc_n"
    /\ UNCHANGED <<key, header, mac, n, h, c, mac2, result,
                   plain, entry, sent, verified>>

(* ---------------------------- Eax::decrypt --------------------------- *)

\* the caller hands decrypt the outputs of encrypt, at most one of nonce,
\* header and ciphertext altered, with a mac of its choice
CallDecrypt ==
    /\ pc = "enc_done"
    /\ \E nn \in {sent.nonce, FlipFirst(sent.nonce)},
          hh \in {sent.header} \cup Altered(sent.header),
          dd \in {sent.data} \cup Altered(sent.data),
          mm \in MacChoices(sent.tag) :
          /\ Cardinality({x \in {<<0, nn = sent.nonce>>, <<1, hh = sent.header>>,
                                 <<2, dd = sent.data>>} : ~x[2]}) <= 1
          /\ nonce' = nn /\ header' = hh /\ data' = dd /\ mac' = mm
          /\ entry' = dd
    /\ verified' = FALSE
    /\ pc' = "dec_n"
    /\ UNCHANGED <<key, n, h, c, mac2, tag, result, plain, sent, prev>>

\* let n = Self::cmac_with_iv(key, 0, nonce).code();
DecN ==
    /\ pc = "dec_n"
    /\ n' = cmac_with_iv(key, 0, nonce)
    /\ pc' = "dec_h"
    /\ UNCHANGED <<key, nonce, header, data, mac, h, c, mac2, tag, result,
                   plain, entry, sent, verified, prev>>

\* let h = Self::cmac_with_iv(key, 1, header).code();
DecH ==
    /\ pc = "dec_h"
    /\ h' = cmac_with_iv(key, 1, header)
    /\ pc' = "dec_c"
    /\ UNCHANGED <<key, nonce, header, data, mac, n, c, mac2, tag, result,
                   plain, entry, sent, verified, prev>>

\* mutant: the buffer is decrypted as soon as its MAC is taken
DecCEarly ==
    /\ pc = "dec_c"
    /\ c' = cmac_with_iv(key, 2, data)
    /\ data' = apply_keystream(key, n, data)
    /\ pc' = "dec_mac2"
    /\ UNCHANGED <<key, nonce, header, mac, n, h, mac2, tag, result,
                   plain, entry, sent, verified, prev>>

\* let c = Self::cmac_with_iv(key, 2, data).code();
DecC ==
    /\ pc = "dec_c"
    /\ c' = cmac_with_iv(key, 2, data)
    /\ pc' = "dec_mac2"
    /\ UNCHANGED <<key, nonce, header, data, mac, n, h, mac2, tag, result,
                   plain, entry, sent, verified, prev>>

\* let mac2 = n.zip(h, ^).zip(c, ^);
DecMac2 ==
    /\ pc = "dec_mac2"
    /\ mac2' = Zip3(n, h, c)
    /\ pc' = "dec_slice"
    /\ UNCHANGED <<key, nonce, header, data, mac, n, h, c, tag, result,
                   plain, entry, sent, verified, prev>>

\* mutant: the candidate is compared at full width
DecSliceNoTruncate ==
    /\ pc = "dec_slice"
    /\ IF Len(mac) > Len(mac2)
       THEN /\ pc' = "panicked"
            /\ result' = "panic"
            /\ n' = None /\ h' = None /\ c' = None /\ mac2' = None
       ELSE /\ pc' = "dec_cmp"
            /\ UNCHANGED <<n, h, c, mac2, result>>
    /\ UNCHANGED <<key, nonce, header, data, mac, tag,
                   plain, entry, sent, verified, prev>>

\* mutant: the slice length is clamped to the array instead of panicking
DecSliceClamp ==
    /\ pc = "dec_slice"
    /\ mac2' = Take(mac2, Min(Len(mac), Len(mac2)))
    /\ pc' = "dec_cmp"
    /\ UNCHANGED <<key, nonce, header, data, mac, n, h, c, tag, result,
                   plain, entry, sent, verified, prev>>

\* let mac2 = &mac2[..mac.len()];  the slice panics past the array's end
DecSlice ==
    /\ pc = "dec_slice"
    /\ IF Len(mac) > Len(mac2)
       THEN /\ pc' = "panicked"
            /\ result' = "panic"
            /\ n' = None /\ h' = None /\ c' = None /\ mac2' = None
       ELSE /\ mac2' = Take(mac2, Len(mac))
            /\ pc' = "dec_cmp"
            /\ UNCHANGED <<n, h, c, result>>
    /\ UNCHANGED <<key, nonce, header, data, mac, tag,
                   plain, entry, sent, verified, prev>>

\* mutant: the comparison's outcome is not acted on
DecCompareIgnored ==
    /\ pc = "dec_cmp"
    /\ verified' = (ct_eq(mac, mac2) = 1)
    /\ pc' = "dec_ctr"
    /\ UNCHANGED <<key, nonce, header, data, mac, n, h, c, mac2, tag, result,
                   plain, entry, sent, prev>>

\* if mac.ct_eq(mac2).unwrap_u8() != 1 { return Err(MacError); }
DecCompare ==
    /\ pc = "dec_cmp"
    /\ IF ct_eq(mac, mac2) # 1
       THEN /\ result' = "MacError"
            /\ pc' = "dec_done"
            /\ n' = None /\ h' = None /\ c' = None /\ mac2' = None
            /\ UNCHANGED verified
       ELSE /\ verified' = TRUE
            /\ pc' = "dec_ctr"
            /\ UNCHANGED <<n, h, c, mac2, result>>
    /\ UNCHANGED <<key, nonce, header, data, mac, tag,
                   plain, entry, sent, prev>>

\* mutant: the counter transform is seeded with h instead of n
DecCtrSeedH ==
    /\ pc = "dec_ctr"
    /\ data' = apply_keystream(key, h, data)
    /\ result' = "Ok"
    /\ pc' = "dec_done"
    /\ n' = None /\ h' = None /\ c' = None /\ mac2' = None
    /\ UNCHANGED <<key, nonce, header, mac, tag,
                   plain, entry, sent, verified, prev>>

\* Ctr128::new(key, &n).apply_keystream(data); Ok(())
DecCtr ==
    /\ pc = "dec_ctr"
    /\ data' = apply_keystream(key, n, data)
    /\ result' = "Ok"
    /\ pc' = "dec_done"
    /\ n' = None /\ h' = None /\ c' = None /\ mac2' = None
    /\ UNCHANGED <<key, nonce, header, mac, tag,
                   plain, entry, sent, verified, prev>>

(* --------------------------- specifications -------------------------- *)

Next ==
    \/ EncN \/ EncH \/ EncCtr \/ EncC \/ EncTag
    \/ CallDecrypt
    \/ DecN \/ DecH \/ DecC \/ DecMac2 \/ DecSlice \/ DecCompare \/ DecCtr

Spec == Init /\ [][Next]_vars

NextNonce ==
    \/ EncN \/ EncH \/ EncCtr \/ EncC \/ EncTag
    \/ EncryptAgain

SpecNonce == Init /\ [][NextNonce]_vars

(* ------------------------------ claims ------------------------------- *)

\* the domain-separated MAC as one MAC-primitive computation over
\* 15 zero bytes || t || m
DomainMAC(k, t, m) == Mac(k, Zeros(15) \o <<t>> \o m)

DecPcs == {"dec_n", "dec_h", "dec_c", "dec_mac2", "dec_slice", "dec_cmp", "dec_ctr"}

Untampered ==
    /\ nonce = sent.nonce
    /\ header = sent.header
    /\ entry = sent.data

\* C1: encrypt, then decrypt with the same key, nonce and header on the
\* resulting buffer with the full tag, succeeds and restores the plaintext.
RoundTrip ==
    (pc = "dec_done" /\ Untampered /\ mac = sent.tag)
        => (result = "Ok" /\ data = plain)

RoundTripWitness ==
    /\ pc = "dec_done" /\ Untampered /\ mac = sent.tag
    /\ result = "Ok" /\ data = plain
    /\ Len(plain) > BlockSize /\ entry # plain

RoundTripEmptyWitness ==
    /\ pc = "dec_done" /\ Untampered /\ mac = sent.tag
    /\ result = "Ok" /\ plain = <<>> /\ header = <<>>

\* C2: inside decrypt the buffer changes only in the step that follows a
\* comparison that reported equality; until then it is as at entry.
VerifyBeforeDecrypt ==
    [][(pc \in DecPcs /\ data' # data) => (verified /\ pc = "dec_ctr")]_vars

VerifyBeforeDecryptWitness ==
    /\ pc = "dec_done" /\ result = "Ok" /\ verified /\ data # entry

\* C2, as a state predicate: a buffer decrypt has not verified is the one
\* it was entered with, during the call and after it.
UntouchedUntilVerified ==
    (pc \in DecPcs \cup {"dec_done", "panicked"} /\ ~verified) => data = entry

\* C3: decrypt returns MacError with the buffer as at entry, or Ok with
\* the buffer run through the counter transform seeded by N.
NoPartialSuccess ==
    pc = "dec_done" =>
        \/ result = "MacError" /\ data = entry
        \/ /\ result = "Ok"
           /\ \A N \in {DomainMAC(key, 0, nonce)} :
                 data = XorSeq(entry, Keystream(key, N, Len(entry)))

NoPartialSuccessWitness ==
    /\ pc = "dec_done" /\ result = "MacError"
    /\ entry # <<>> /\ data = entry /\ Len(mac) = BlockSize

\* C4: with a mac of length L <= 16, decrypt succeeds exactly when mac is
\* the first L bytes of N xor H xor C, C taken over the buffer as supplied.
TruncatedTag ==
    (pc = "dec_done" /\ Len(mac) <= BlockSize) =>
        \A N \in {DomainMAC(key, 0, nonce)},
           H \in {DomainMAC(key, 1, header)},
           C \in {DomainMAC(key, 2, entry)} :
            result = "Ok" <=>
                \A i \in 1..Len(mac) : mac[i] = Xor8(Xor8(N[i], H[i]), C[i])

TruncatedTagWitness ==
    /\ pc = "dec_done" /\ result = "Ok"
    /\ Len(mac) = 1 /\ entry # <<>>

TruncatedTagRejectWitness ==
    /\ pc = "dec_done" /\ result = "MacError" /\ Len(mac) = 1

\* the MAC primitive does not collide on the altered input of this call
NoCollision ==
    /\ nonce # sent.nonce => DomainMAC(key, 0, nonce) # DomainMAC(key, 0, sent.nonce)
    /\ header # sent.header => DomainMAC(key, 1, header) # DomainMAC(key, 1, sent.header)
    /\ entry # sent.data => DomainMAC(key, 2, entry) # DomainMAC(key, 2, sent.data)

ExactlyOneAltered ==
    Cardinality({x \in {<<0, nonce = sent.nonce>>, <<1, header = sent.header>>,
                        <<2, entry = sent.data>>, <<3, mac = sent.tag>>} : ~x[2]}) = 1

\* C5: with a full-width tag and exactly one of nonce, header, ciphertext
\* and tag altered, and no MAC collision, decrypt returns MacError.
TamperDetection ==
    (pc = "dec_done" /\ Len(mac) = BlockSize /\ ExactlyOneAltered /\ NoCollision)
        => result = "MacError"

TamperDetectionWitness ==
    /\ pc = "dec_done" /\ Len(mac) = BlockSize /\ ExactlyOneAltered /\ NoCollision
    /\ header # sent.header /\ result = "MacError"

\* C6: a mac longer than the MAC output never reaches the comparison: the
\* call panics, reports neither Ok nor MacError, and leaves the buffer.
OversizedMac ==
    Len(mac) > BlockSize =>
        /\ data = entry
        /\ ~verified
        /\ \/ pc \in {"dec_n", "dec_h", "dec_c", "dec_mac2", "dec_slice"} /\ result = "none"
           \/ pc = "panicked" /\ result = "panic"

OversizedMacWitness ==
    /\ pc = "panicked" /\ result = "panic" /\ Len(mac) = BlockSize + 1
    /\ entry # <<>> /\ data = entry

\* C9: encrypt leaves plaintext xor keystream(key, N) in the buffer, of the
\* same length, and returns N xor H xor C with C taken over the ciphertext.
EncryptResult ==
    pc = "enc_done" =>
        \A N \in {DomainMAC(key, 0, nonce)}, H \in {DomainMAC(key, 1, header)},
           C \in {DomainMAC(key, 2, data)} :
          \A ks \in {Keystream(key, N, Len(plain))} :
            /\ Len(data) = Len(plain)
            /\ \A i \in 1..Len(plain) : data[i] = Xor8(plain[i], ks[i])
            /\ Len(tag) = BlockSize
            /\ \A i \in 1..BlockSize : tag[i] = Xor8(Xor8(N[i], H[i]), C[i])

EncryptResultWitness ==
    /\ pc = "enc_done" /\ Len(plain) > BlockSize /\ data # plain
    /\ DomainMAC(key, 2, data) # DomainMAC(key, 2, plain)

\* C10: each cmac_with_iv result, as encrypt and decrypt have just taken it,
\* is the MAC primitive over 15 zero bytes || t || m, with t = 0 for the
\* nonce, 1 for the header and 2 for the ciphertext.
DomainSeparation ==
    /\ pc \in {"enc_h", "dec_h"} => n = DomainMAC(key, 0, nonce)
    /\ pc \in {"enc_ctr", "dec_c"} => h = DomainMAC(key, 1, header)
    /\ pc \in {"enc_tag", "dec_mac2"} => c = DomainMAC(key, 2, data)

DomainSeparationWitness ==
    /\ pc = "dec_mac2" /\ Len(data) > BlockSize /\ Len(header) = BlockSize
    /\ c = DomainMAC(key, 2, data)

NonceSensitivityEmptyWitness ==
    /\ pc = "enc_done" /\ prev.set /\ nonce # prev.nonce
    /\ plain = <<>> /\ data = prev.data /\ tag # prev.tag

====
